---- MODULE Spec2Model ----
(***************************************************************************)
(* Model of tool/Image_format_conversion.py: the format registry           *)
(* (SUPPORTED_FORMATS), ImageConverter.convert_single_image and            *)
(* ImageConverter.batch_convert, over an abstract filesystem.              *)
(*                                                                         *)
(* A path is a record [root, rel, stem, ext]: the directory root, the      *)
(* sub-directory below it ("" for a direct child), the file stem and the   *)
(* suffix as written (case kept).  fs maps every existing path to "file"   *)
(* or "dir"; dirs is the set of existing directories <<root, rel>>.        *)
(* The codec (PIL) is the environment: the decoded mode and the faults it  *)
(* raises are chosen nondeterministically.                                 *)
(***************************************************************************)
EXTENDS Integers, Sequences, FiniteSets, TLC

VARIABLES
    quality,       \* self.quality
    optimize,      \* self.optimize
    fs,            \* existing directory entries: path -> "file" | "dir"
    dirs,          \* existing directories
    pc,            \* position of the driver
    args,          \* arguments of batch_convert
    listed,        \* what input_path.glob(pattern) yields in this run
    todo,          \* entries of the glob not yet visited by the for loop
    stats,         \* the stats dict of batch_convert
    log,           \* one record per candidate handled, per run
    run,           \* 1 for the first batch run, 2 for the re-run
    resize_tuple,  \* main's resize_tuple (<<>> is None)
    last           \* observation of the direct convert_single_image call

vars == <<quality, optimize, fs, dirs, pc, args, listed, todo, stats, log,
          run, resize_tuple, last>>

-----------------------------------------------------------------------------
(* Bounds *)

\* most entries in the input directory tree when batch_convert starts
MaxFiles == 2

-----------------------------------------------------------------------------
(* Format registry *)

\* SUPPORTED_FORMATS: the dict, key for key
SUPPORTED_FORMATS ==
    (".jpg" :> "JPEG") @@ (".jpeg" :> "JPEG") @@ (".png" :> "PNG") @@
    (".bmp" :> "BMP") @@ (".tiff" :> "TIFF") @@ (".tif" :> "TIFF") @@
    (".gif" :> "GIF") @@ (".webp" :> "WEBP") @@ (".ico" :> "ICO")

\* str.lower() on the strings the model uses
Lower(s) ==
    CASE s = ".PNG"  -> ".png"
      [] s = ".JPG"  -> ".jpg"
      [] s = ".JPEG" -> ".jpeg"
      [] s = ".Bmp"  -> ".bmp"
      [] s = ".XYZ"  -> ".xyz"
      [] OTHER       -> s

\* Path(p).suffix
Suffix(p) == p.ext

\* ImageConverter.is_supported_format
is_supported_format(p) == Lower(Suffix(p)) \in DOMAIN SUPPORTED_FORMATS

\* ImageConverter.get_output_format: SUPPORTED_FORMATS.get(ext, 'JPEG')
get_output_format(p) ==
    IF Lower(Suffix(p)) \in DOMAIN SUPPORTED_FORMATS
    THEN SUPPORTED_FORMATS[Lower(Suffix(p))]
    ELSE "JPEG"

-----------------------------------------------------------------------------
(* Filesystem *)

MkPath(root, rel, stem, ext) ==
    [root |-> root, rel |-> rel, stem |-> stem, ext |-> ext]

\* Path(p).parent
Parent(p) == <<p.root, p.rel>>

\* os.path.exists / Path.exists on a file path
Exists(F, p) == p \in DOMAIN F

\* Path.mkdir(parents=True, exist_ok=True)
Mkdir(D, d) == D \cup {d, <<d[1], "">>}

\* Path.is_file
IsFile(F, p) == p \in DOMAIN F /\ F[p] = "file"

-----------------------------------------------------------------------------
(* ImageConverter.__init__ *)

ClampMutNoUpper(q) == IF q < 1 THEN 1 ELSE q

Max(a, b) == IF a >= b THEN a ELSE b
Min(a, b) == IF a <= b THEN a ELSE b

\* self.quality = max(1, min(100, quality))
Clamp(q) == Max(1, Min(100, q))

-----------------------------------------------------------------------------
(* convert_single_image *)

\* modes Image.open can report for the supported containers
Modes == {"RGB", "P", "RGBA", "LA", "PA"}

\* what the environment can do to one call: nothing, the decoder raising,
\* the encoder raising with the output file as it was, the encoder raising
\* with the output file created or truncated
Faults == {"none", "decode", "encode_clean", "encode_partial"}

\* size of the decoded image (not decided by the program)
DecodedSize == <<1000, 500>>

NoImage == [mode |-> "none", size |-> <<>>]

\* line 105: the transparency test
NeedsComposite(output_format, mode) ==
    output_format \in {"JPEG", "BMP"} /\ mode \in {"RGBA", "LA"}

\* lines 106-112: white RGB background of the image's size, image pasted on
\* it (with the alpha band as mask for RGBA, directly for LA)
Composite(img) == [mode |-> "RGB", size |-> img.size]

CompositeStep(mode) == IF mode = "RGBA" THEN "paste_mask" ELSE "paste"

\* ImageOps.fit / Image.resize raise on a size with a non-positive component
ResizeRaises(resize) == resize[1] <= 0 \/ resize[2] <= 0

\* lines 115-119: both branches give an image of exactly the size asked
Resized(img, resize) == [mode |-> img.mode, size |-> resize]

ResizeStep(maintain_aspect) == IF maintain_aspect THEN "fit" ELSE "resize"

\* lines 122-132: save_kwargs
SaveKwargs(output_format, q, opt) ==
    IF output_format = "JPEG"
    THEN [optimize |-> opt, quality |-> q, progressive |-> TRUE]
    ELSE IF output_format = "PNG"
    THEN [optimize |-> opt, compress_level |-> 6]
    ELSE IF output_format = "WEBP"
    THEN [optimize |-> opt, quality |-> q, method |-> 6]
    ELSE [optimize |-> opt]

\* line 135: PIL's JPEG and BMP writers have no raw mode for a palette image
\* with alpha and raise on it
EncoderRejects(output_format, mode) ==
    output_format \in {"JPEG", "BMP"} /\ mode = "PA"

\* the result of one call: ok is the return value; raised is TRUE when an
\* exception leaves the function; error is the message logged; trace lists
\* the steps attempted, in order; encoded is the image handed to img.save;
\* wrote is TRUE when the output file was created or overwritten (also by a
\* save that then failed)
Result(ok, raised, error, F, D, trace, fmt, encoded, kwargs, wrote) ==
    [ok |-> ok, raised |-> raised, error |-> error, fs |-> F, dirs |-> D,
     trace |-> trace, output_format |-> fmt, encoded |-> encoded,
     kwargs |-> kwargs, wrote |-> wrote]

\* lines 89-95: log the error, return False
EarlyReturn(F, D, error) ==
    Result(FALSE, FALSE, error, F, D, <<>>, "none", NoImage,
           [optimize |-> FALSE], FALSE)

CatchMutLetDecodeEscape(F, D, trace, fmt, encoded, kwargs, wrote) ==
    Result(FALSE, trace # <<>> /\ trace[Len(trace)] = "open", "failed",
           F, D, trace, fmt, encoded, kwargs, wrote)

\* lines 140-142: except Exception -> log, return False
Catch(F, D, trace, fmt, encoded, kwargs, wrote) ==
    Result(FALSE, FALSE, "failed", F, D, trace, fmt, encoded, kwargs, wrote)

\* lines 102-138: the body of the with block, the image being decoded
ConvertBody(F, D, output_path, resize, maintain_aspect, q, opt, mode, fault) ==
    LET fmt   == get_output_format(output_path)
        img0  == [mode |-> mode, size |-> DecodedSize]
        comp  == NeedsComposite(fmt, mode)
        img1  == IF comp THEN Composite(img0) ELSE img0
        t1    == IF comp THEN <<"mkdir", "open", CompositeStep(mode)>>
                         ELSE <<"mkdir", "open">>
        doRes == resize # <<>>
        t2    == IF doRes THEN Append(t1, ResizeStep(maintain_aspect)) ELSE t1
        kw    == SaveKwargs(fmt, q, opt)
        t3    == Append(t2, "save")
    IN  IF doRes /\ ResizeRaises(resize)
        THEN Catch(F, D, t2, fmt, NoImage, [optimize |-> opt], FALSE)
        ELSE LET img2 == IF doRes THEN Resized(img1, resize) ELSE img1
             IN  IF \/ fault = "encode_clean"
                    \/ (Exists(F, output_path) /\ F[output_path] = "dir")
                    \/ (fault = "none" /\ EncoderRejects(fmt, img2.mode))
                 THEN Catch(F, D, t3, fmt, img2, kw, FALSE)
                 ELSE IF fault = "encode_partial"
                 THEN Catch((output_path :> "file") @@ F, D, t3, fmt, img2, kw, TRUE)
                 ELSE Result(TRUE, FALSE, "none",
                             (output_path :> "file") @@ F, D,
                             t3, fmt, img2, kw, TRUE)

ConvertMutMkdirFirst(F, D, input_path, output_path, resize, maintain_aspect, q, opt, mode, fault) ==
    IF ~Exists(F, input_path)
    THEN EarlyReturn(F, Mkdir(D, Parent(output_path)), "input_missing")
    ELSE IF ~is_supported_format(input_path)
    THEN EarlyReturn(F, Mkdir(D, Parent(output_path)), "unsupported_input")
    ELSE ConvertBody(F, Mkdir(D, Parent(output_path)), output_path, resize,
                     maintain_aspect, q, opt, mode, fault)

\* ImageConverter.convert_single_image
convert_single_image(F, D, input_path, output_path, resize, maintain_aspect, q, opt, mode, fault) ==
    IF ~Exists(F, input_path)
    THEN EarlyReturn(F, D, "input_missing")
    ELSE IF ~is_supported_format(input_path)
    THEN EarlyReturn(F, D, "unsupported_input")
    ELSE IF fault = "decode" \/ F[input_path] = "dir"
    THEN Catch(F, Mkdir(D, Parent(output_path)), <<"mkdir", "open">>, "none",
               NoImage, [optimize |-> opt], FALSE)
    ELSE ConvertBody(F, Mkdir(D, Parent(output_path)), output_path, resize,
                     maintain_aspect, q, opt, mode, fault)

-----------------------------------------------------------------------------
(* batch_convert *)

ZeroStats == [success |-> 0, failed |-> 0, skipped |-> 0]

\* line 163: target_ext = f".{target_format.lower()}"
TargetExt(target_format) == Lower("." \o target_format)

ValidatedMutNoFormatCheck(D, a) == <<a.input_dir, "">> \in D

\* lines 158-166: the two validations
Validated(D, a) ==
    /\ <<a.input_dir, "">> \in D
    /\ TargetExt(a.target_format) \in DOMAIN SUPPORTED_FORMATS

\* lines 175-176: input_path.glob("**/*" if recursive else "*"); each
\* directory is listed when the walk reaches it, before any of its files is
\* handled.  (The sub-directory itself is yielded too; it has no suffix and
\* is dropped by line 177.)
Glob(F, input_dir, recursive) ==
    {p \in DOMAIN F : p.root = input_dir /\ (recursive \/ p.rel = "")}

\* line 177
IsCandidate(F, p) == IsFile(F, p) /\ is_supported_format(p)

\* lines 179-180: output_path / relative_path.with_suffix(target_ext)
OutputFile(p, output_dir, target_ext) ==
    MkPath(output_dir, p.rel, p.stem, target_ext)

SkipMutExistsOnly(F, p, out, target_ext) == Exists(F, out)

SkipMutSameFormatOnly(F, p, out, target_ext) == Lower(Suffix(p)) = target_ext

\* line 183
Skip(F, p, out, target_ext) ==
    Exists(F, out) /\ Lower(Suffix(p)) = target_ext

TallyMutDropFailed(st, ok) ==
    IF ok THEN [st EXCEPT !.success = @ + 1] ELSE st

\* lines 189-192
Tally(st, ok) ==
    IF ok THEN [st EXCEPT !.success = @ + 1]
          ELSE [st EXCEPT !.failed = @ + 1]

Event(r, p, out, kind, existed, wrote) ==
    [run |-> r, src |-> p, out |-> out, kind |-> kind,
     existed |-> existed, wrote |-> wrote]

\* lines 158-176: validations, mkdir of the output directory, fresh stats,
\* the glob
BatchStart ==
    /\ pc = "start"
    /\ stats' = ZeroStats
    /\ IF Validated(dirs, args)
       THEN /\ dirs' = Mkdir(dirs, <<args.output_dir, "">>)
            /\ listed' = Glob(fs, args.input_dir, args.recursive)
            /\ todo' = listed'
            /\ pc' = "loop"
       ELSE /\ listed' = {}
            /\ todo' = {}
            /\ pc' = "returned"
            /\ UNCHANGED dirs
    /\ UNCHANGED <<quality, optimize, fs, args, log, run, resize_tuple, last>>

\* lines 176-192: one iteration of the for loop
BatchStep ==
    /\ pc = "loop"
    /\ \E p \in todo :
         LET target_ext == TargetExt(args.target_format)
             out == OutputFile(p, args.output_dir, target_ext)
         IN  /\ todo' = todo \ {p}
             /\ IF ~IsCandidate(fs, p)
                THEN UNCHANGED <<fs, dirs, stats, log, pc>>
                ELSE IF Skip(fs, p, out, target_ext)
                THEN /\ stats' = [stats EXCEPT !.skipped = @ + 1]
                     /\ log' = log \cup
                          {Event(run, p, out, "skipped", Exists(fs, out), FALSE)}
                     /\ UNCHANGED <<fs, dirs, pc>>
                ELSE \E mode \in Modes, fault \in Faults :
                     \E r \in {convert_single_image(fs, dirs, p, out, <<>>,
                                  TRUE, quality, optimize, mode, fault)} :
                         /\ fs' = r.fs
                         /\ dirs' = r.dirs
                         /\ log' = log \cup
                              {Event(run, p, out,
                                     IF r.ok THEN "success" ELSE "failed",
                                     Exists(fs, out), r.wrote)}
                         /\ IF r.raised
                            THEN pc' = "crashed" /\ UNCHANGED stats
                            ELSE pc' = "loop" /\ stats' = Tally(stats, r.ok)
    /\ UNCHANGED <<quality, optimize, args, listed, run, resize_tuple, last>>

\* lines 194-196: the loop is over, return stats
BatchReturn ==
    /\ pc = "loop"
    /\ todo = {}
    /\ pc' = "returned"
    /\ UNCHANGED <<quality, optimize, fs, dirs, args, listed, todo, stats,
                   log, run, resize_tuple, last>>

\* the caller runs the same batch a second time
Rerun ==
    /\ pc = "returned"
    /\ run = 1
    /\ run' = 2
    /\ pc' = "start"
    /\ UNCHANGED <<quality, optimize, fs, dirs, args, listed, todo, stats,
                   log, resize_tuple, last>>

-----------------------------------------------------------------------------
(* The batch specification *)

\* entries the input tree may hold when the batch starts
InPaths ==
    { MkPath("in", "", "a", ".jpg"), MkPath("in", "", "a", ".png"),
      MkPath("in", "", "b", ".PNG"), MkPath("in", "", "b", ".txt"),
      MkPath("in", "sub", "a", ".jpg") }

\* the entries that may be directories carrying an image suffix
DirNamed == {MkPath("in", "", "b", ".PNG")}

TargetFormats == {"PNG", "bmp", "xyz"}

BatchArgs ==
    [input_dir : {"in", "gone"}, output_dir : {"in", "out"},
     target_format : TargetFormats, recursive : BOOLEAN]

\* the default of __init__'s quality parameter and of --quality
DefaultQuality == 95

NoCall ==
    [called |-> FALSE, input |-> MkPath("none", "", "", ""),
     output |-> MkPath("none", "", "", ""), resize |-> <<>>,
     maintain_aspect |-> TRUE, mode |-> "none", fault |-> "none",
     fs0 |-> <<>>, dirs0 |-> {},
     res |-> EarlyReturn(<<>>, {}, "none")]

Init ==
    /\ quality = Clamp(DefaultQuality)
    /\ optimize = TRUE
    /\ \E S \in SUBSET InPaths :
         /\ Cardinality(S) <= MaxFiles
         /\ fs \in {f \in [S -> {"file", "dir"}] :
                       \A p \in S : f[p] = "dir" => p \in DirNamed}
         /\ dirs = {<<"in", "">>} \cup {<<p.root, p.rel>> : p \in S}
    /\ args \in BatchArgs
    /\ pc = "start"
    /\ listed = {}
    /\ todo = {}
    /\ stats = ZeroStats
    /\ log = {}
    /\ run = 1
    /\ resize_tuple = <<>>
    /\ last = NoCall

\* one call of batch_convert
BatchRun == BatchStart \/ BatchStep \/ BatchReturn

Next == BatchRun \/ Rerun

Spec == Init /\ [][Next]_vars

\* one call of batch_convert, running as sequential code does: a call that
\* can take a step takes it
FairSpec == Init /\ [][BatchRun]_vars /\ WF_vars(BatchRun)

-----------------------------------------------------------------------------
(* main, single-file mode *)

\* lines 224-231: None without --resize, else map(int, s.lower().split('x'))
\* unpacked into two names; ValueError makes main return
ParseResize(s) ==
    CASE s = ""        -> [ok |-> TRUE, value |-> <<>>]
      [] s = "400X400" -> [ok |-> TRUE, value |-> <<400, 400>>]
      [] s = "0x100"   -> [ok |-> TRUE, value |-> <<0, 100>>]
      [] s = "-5x10"   -> [ok |-> TRUE, value |-> <<-5, 10>>]
      [] OTHER         -> [ok |-> FALSE, value |-> <<>>]

ResizeSpecs == {"", "400X400", "0x100", "-5x10", "abc", "800"}

\* values given as the quality argument of ImageConverter(...)
QualityArgs == {-5, 0, 1, 95, 100, 150}

\* the input paths tried: an image, a text file, a directory named like an
\* image, and two paths that do not exist
SingleInputs ==
    { MkPath("in", "", "a", ".jpg"), MkPath("in", "", "b", ".txt"),
      MkPath("in", "", "b", ".PNG"), MkPath("in", "", "c", ".png"),
      MkPath("in", "", "c", ".txt") }

OutExts ==
    {".jpg", ".JPEG", ".png", ".bmp", ".tiff", ".gif", ".webp", ".ico", ".xyz"}

SingleOutputs ==
    {MkPath("out", rel, "o", e) : rel \in {"", "sub"}, e \in OutExts}

\* lines 224-231
MainParse ==
    /\ pc = "main"
    /\ \E s \in ResizeSpecs :
         IF ParseResize(s).ok
         THEN resize_tuple' = ParseResize(s).value /\ pc' = "parsed"
         ELSE pc' = "usage_error" /\ UNCHANGED resize_tuple
    /\ UNCHANGED <<quality, optimize, fs, dirs, args, listed, todo, stats,
                   log, run, last>>

\* line 234 and __init__
Construct ==
    /\ pc = "parsed"
    /\ \E q \in QualityArgs, no_optimize \in BOOLEAN :
         /\ args' = [quality_arg |-> q, no_optimize |-> no_optimize]
         /\ quality' = Clamp(q)
         /\ optimize' = ~no_optimize
    /\ pc' = "ready"
    /\ UNCHANGED <<fs, dirs, listed, todo, stats, log, run, resize_tuple, last>>

\* lines 264-278: the call, then exit status 1 on failure
Convert ==
    /\ pc = "ready"
    /\ \E input \in SingleInputs, output \in SingleOutputs,
          maintain_aspect \in BOOLEAN, mode \in Modes, fault \in Faults :
         \E r \in {convert_single_image(fs, dirs, input, output, resize_tuple,
                       maintain_aspect, quality, optimize, mode, fault)} :
            /\ last' = [called |-> TRUE, input |-> input, output |-> output,
                        resize |-> resize_tuple,
                        maintain_aspect |-> maintain_aspect, mode |-> mode,
                        fault |-> fault, fs0 |-> fs, dirs0 |-> dirs, res |-> r]
            /\ fs' = r.fs
            /\ dirs' = r.dirs
            /\ pc' = IF r.raised THEN "crashed"
                     ELSE IF r.ok THEN "exit0" ELSE "exit1"
    /\ UNCHANGED <<quality, optimize, args, listed, todo, stats, log, run,
                   resize_tuple>>

\* main is entered: no converter exists yet (quality and optimize are set by
\* Construct), the input directory holds an image, a text file and a
\* directory named like an image, the output directory does not exist
InitSingle ==
    /\ quality = 0
    /\ optimize = FALSE
    /\ fs = (MkPath("in", "", "a", ".jpg") :> "file") @@
            (MkPath("in", "", "b", ".txt") :> "file") @@
            (MkPath("in", "", "b", ".PNG") :> "dir")
    /\ dirs = {<<"in", "">>}
    /\ args = [quality_arg |-> DefaultQuality, no_optimize |-> FALSE]
    /\ pc = "main"
    /\ listed = {}
    /\ todo = {}
    /\ stats = ZeroStats
    /\ log = {}
    /\ run = 1
    /\ resize_tuple = <<>>
    /\ last = NoCall

NextSingle == MainParse \/ Construct \/ Convert

SpecSingle == InitSingle /\ [][NextSingle]_vars

-----------------------------------------------------------------------------
(* Properties of batch_convert *)

\* the extensions the specification lists as supported
SupportedSet ==
    {".jpg", ".jpeg", ".png", ".bmp", ".tiff", ".tif", ".gif", ".webp", ".ico"}

\* the enumerated files whose lower-cased extension is supported
ConvertibleIn(S) ==
    {p \in S : p \in DOMAIN fs /\ fs[p] = "file" /\ Lower(p.ext) \in SupportedSet}

EventsOf(r) == {e \in log : e.run = r}

StatsSum == stats.success + stats.failed + stats.skipped

\* the arguments fail one of the two validations
BadArgs ==
    \/ args.input_dir \notin {d[1] : d \in dirs}
    \/ Lower("." \o args.target_format) \notin SupportedSet

\* C1: in a run that passed the validations, success + failed + skipped is
\* the number of enumerated files with a supported extension handled so far
\* (all of them once the run has returned); every such file has exactly one
\* outcome and each count is the number of files with that outcome, so a
\* file with an unsupported extension adds to no count.
C1_StatsCountCandidates ==
    pc \in {"loop", "returned"} =>
        LET done == ConvertibleIn(listed \ todo)
            ev   == EventsOf(run)
        IN  /\ pc = "returned" => todo = {}
            /\ StatsSum = Cardinality(done)
            /\ {e.src : e \in ev} = done
            /\ Cardinality(ev) = Cardinality(done)
            /\ stats.success = Cardinality({e \in ev : e.kind = "success"})
            /\ stats.failed = Cardinality({e \in ev : e.kind = "failed"})
            /\ stats.skipped = Cardinality({e \in ev : e.kind = "skipped"})

C1_Witness ==
    /\ pc = "returned"
    /\ \E p \in listed : fs[p] = "file" /\ Lower(p.ext) \notin SupportedSet
    /\ Cardinality(listed) = 2
    /\ StatsSum = 1
    /\ stats.failed = 1

\* C2 (state part): a candidate is skipped exactly when its output path
\* existed and its own lower-cased extension is the target extension; a
\* skipped candidate wrote nothing, and a candidate of another extension is
\* handed to convert_single_image even when its output path existed.
C2_SkipRule ==
    \A e \in log :
        /\ e.kind = "skipped" <=> (e.existed /\ Lower(e.src.ext) = e.out.ext)
        /\ e.kind = "skipped" => ~e.wrote
        /\ (e.existed /\ Lower(e.src.ext) # e.out.ext)
               => e.kind \in {"success", "failed"}
        /\ e.kind = "success" => e.wrote

\* C2 (step part): the step that counts a candidate as skipped leaves the
\* filesystem as it was.
C2_SkipStep ==
    stats'.skipped # stats.skipped => (fs' = fs /\ dirs' = dirs)

\* C2: the skip rule of batch_convert, on every handled candidate and on
\* every step.
C2_Skip == []C2_SkipRule /\ [][C2_SkipStep]_vars

C2_Witness ==
    \E e1, e2 \in log :
        /\ e1.run = e2.run
        /\ e1.kind = "skipped"
        /\ e2.kind = "success" /\ e2.existed /\ Lower(e2.src.ext) # e2.out.ext

\* C3 as stated: once the second run has returned, every candidate whose
\* output the first run wrote is reported skipped by the second run, and the
\* second run writes to none of those outputs.
C3_RerunSkipsAllWritten ==
    (pc = "returned" /\ run = 2) =>
        \A e1 \in EventsOf(1) :
            e1.kind = "success" =>
                /\ \E e2 \in EventsOf(2) : e2.src = e1.src /\ e2.kind = "skipped"
                /\ \A e2 \in EventsOf(2) : e2.out = e1.out => ~e2.wrote

\* C3 amended: in the second run a candidate whose own lower-cased extension
\* is the target extension and whose output the first run wrote is skipped
\* and writes nothing; no existing output is written on behalf of a
\* candidate of the target extension; a candidate of another extension is
\* converted again.
C3_RerunSkipsSameFormat ==
    \A e2 \in EventsOf(2) :
        /\ (/\ Lower(e2.src.ext) = e2.out.ext
            /\ \E e1 \in EventsOf(1) : e1.src = e2.src /\ e1.kind = "success")
               => (e2.kind = "skipped" /\ ~e2.wrote)
        /\ (e2.wrote /\ e2.existed) => Lower(e2.src.ext) # e2.out.ext
        /\ Lower(e2.src.ext) # e2.out.ext => e2.kind \in {"success", "failed"}

C3_Witness ==
    /\ pc = "returned"
    /\ run = 2
    /\ args.output_dir = "out"
    /\ \E e1 \in EventsOf(1), e2 \in EventsOf(2) :
         e1.src = e2.src /\ e1.kind = "success" /\ e2.kind = "skipped"
    /\ \E e1 \in EventsOf(1), e2 \in EventsOf(2) :
         /\ e1.src = e2.src /\ e1.kind = "success"
         /\ e2.kind = "success" /\ e2.existed

\* C4 (state part): no exception leaves convert_single_image, and a run that
\* has returned has handled every convertible file once.
C4_NoAbort ==
    /\ pc # "crashed"
    /\ pc = "returned" =>
          /\ {e.src : e \in EventsOf(run)} = ConvertibleIn(listed)
          /\ StatsSum = Cardinality(ConvertibleIn(listed))

\* C4: whatever the per-file outcomes, the batch is never aborted and every
\* started run returns its stats after handling every candidate once.
C4_FailureIsolation ==
    /\ []C4_NoAbort
    /\ (pc = "start" ~> pc = "returned")
    /\ (pc = "loop" ~> pc = "returned")

C4_Witness ==
    /\ pc = "returned"
    /\ stats.failed = 1
    /\ stats.success = 1

\* C7: when the input directory is missing or the target format token is
\* not a supported extension, the run never enters the loop, returns zeroed
\* stats, enumerates and converts nothing and does not create the output
\* directory; so an output directory that was created implies both
\* validations passed.
C7_ValidateBeforeActing ==
    BadArgs =>
        /\ pc # "loop"
        /\ pc = "returned" => stats = [success |-> 0, failed |-> 0, skipped |-> 0]
        /\ listed = {}
        /\ log = {}
        /\ args.output_dir = "out" => <<"out", "">> \notin dirs
        /\ \A p \in DOMAIN fs : p.root = "in"

C7_Witness ==
    /\ pc = "returned"
    /\ run = 2
    /\ args.input_dir = "in"
    /\ args.output_dir = "out"
    /\ Lower("." \o args.target_format) \notin SupportedSet
    /\ ConvertibleIn(DOMAIN fs) # {}

\* C10 as stated: within one run no two candidates write the same output
\* file, so the files written are as many as the successes.
C10_DistinctOutputs ==
    \A e1, e2 \in log :
        (e1.run = e2.run /\ e1.src # e2.src
           /\ e1.kind = "success" /\ e2.kind = "success")
        => e1.out # e2.out

-----------------------------------------------------------------------------
(* Properties of convert_single_image *)

Unchanged == fs = last.fs0 /\ dirs = last.dirs0

\* C5: a call whose input path does not exist fails as "input missing"; a
\* call whose input exists but has an extension outside the supported set
\* fails as "unsupported input"; in both cases no step (mkdir, open, save)
\* was attempted and files and directories are as before the call.
C5_ChecksInOrder ==
    last.called =>
        LET missing     == last.input \notin DOMAIN last.fs0
            unsupported == Lower(last.input.ext) \notin SupportedSet
        IN  /\ missing => last.res.error = "input_missing"
            /\ (~missing /\ unsupported) => last.res.error = "unsupported_input"
            /\ (missing \/ unsupported) =>
                  /\ ~last.res.ok
                  /\ pc = "exit1"
                  /\ last.res.trace = <<>>
                  /\ ~last.res.wrote
                  /\ Unchanged

C5_Witness ==
    /\ last.called
    /\ last.input \in DOMAIN last.fs0
    /\ Lower(last.input.ext) \notin SupportedSet
    /\ Parent(last.output) \notin last.dirs0
    /\ last.fault = "none"
    /\ last.res.error = "unsupported_input"

\* C6 as stated: a call with a resize target that has a non-positive width
\* or height fails before the image is decoded and before any filesystem
\* change: no step was attempted, files and directories are as before.
C6_BadResizeRejectedEarly ==
    (/\ last.called
     /\ last.resize # <<>>
     /\ (last.resize[1] <= 0 \/ last.resize[2] <= 0))
    => /\ ~last.res.ok
       /\ last.res.trace = <<>>
       /\ Unchanged

\* PIL modes that carry an alpha band
HasAlpha(mode) == mode \in {"RGBA", "LA", "PA"}

Composited ==
    \E i \in 1..Len(last.res.trace) : last.res.trace[i] \in {"paste", "paste_mask"}

\* C8 as stated: for a decoded image, compositing onto white happens exactly
\* when the target format is JPEG or BMP and the mode has an alpha channel,
\* it precedes the resize step, and no image handed to the JPEG or BMP
\* encoder has an alpha channel.
C8_AlphaComposited ==
    (last.called /\ last.res.output_format # "none") =>
        /\ Composited <=>
              (last.res.output_format \in {"JPEG", "BMP"} /\ HasAlpha(last.mode))
        /\ Composited => last.res.trace[3] \in {"paste", "paste_mask"}
        /\ (last.res.output_format \in {"JPEG", "BMP"}
              /\ last.res.encoded.mode # "none")
               => ~HasAlpha(last.res.encoded.mode)

\* C9: after construction quality is min(100, max(1, q)) for the argument q,
\* so it lies in 1..100 (150 gives 100, 0 gives 1), and optimize is the flag
\* given; the keyword arguments of a save are decided by the target format
\* and these two values alone: JPEG quality and progressive, PNG compression
\* level 6 and no quality, WEBP quality and method 6, the others neither;
\* all carry the optimize flag.
C9_EncoderParams ==
    pc # "main" /\ pc # "parsed" /\ pc # "usage_error" =>
        LET q   == args.quality_arg
            cq  == IF q > 100 THEN 100 ELSE IF q < 1 THEN 1 ELSE q
            opt == ~args.no_optimize
            kw  == last.res.kwargs
            f   == last.res.output_format
        IN  /\ quality = cq
            /\ quality \in 1..100
            /\ q = 150 => quality = 100
            /\ q = 0 => quality = 1
            /\ optimize = opt
            /\ (last.called /\ f # "none" /\ last.res.encoded.mode # "none") =>
                  /\ f = "JPEG" =>
                       kw = [optimize |-> opt, quality |-> cq, progressive |-> TRUE]
                  /\ f = "PNG" =>
                       kw = [optimize |-> opt, compress_level |-> 6]
                  /\ f = "WEBP" =>
                       kw = [optimize |-> opt, quality |-> cq, method |-> 6]
                  /\ f \in {"BMP", "TIFF", "GIF", "ICO"} =>
                       kw = [optimize |-> opt]

C9_Witness ==
    /\ last.called
    /\ last.res.ok
    /\ last.res.output_format = "WEBP"
    /\ args.quality_arg = 150
    /\ last.res.kwargs.quality = 100
    /\ args.no_optimize

====
